---- MODULE Spec2Model ----
(***************************************************************************)
(* Model of the MIDI bassline generator: the scale table                   *)
(* (musical_scales.py), the rhythm templates, the generation loop and the  *)
(* MIDI export (bassline_generator_core.py), the dice roller               *)
(* (dice_roller.py), the command-line front end (main_program.py), the     *)
(* preview export (midi_preview.py) and the threads of the graphical       *)
(* front end (gui_main.py).                                                *)
(*                                                                         *)
(* Units.  Positions are sixteenth-note steps, as in the code.  Durations  *)
(* are beats in the code (0.25 .. 2.0); the model stores them in quarter   *)
(* beats (beats * StepsPerBeat), so 0.25 -> 1, 1.0 -> 4, 2.0 -> 8, which   *)
(* is also the length in steps.  The note density and the value returned   *)
(* by random.random() are rationals: a density d of a call stands for      *)
(* d/density_res (density_res is DensityRes for a direct call and RoundRes, *)
(* hundredths, for a call made by the command line or the dice roller) and *)
(* a draw u for u/DrawRes, with 0 <= u < DrawRes, i.e. u/DrawRes is in     *)
(* [0,1).                                                                  *)
(*                                                                         *)
(* Random source.  The code draws from the process-wide generator of the   *)
(* random module.  Its state is program state: rng.tape is the stream of   *)
(* variates the generator will produce (chosen arbitrarily in Init, of     *)
(* period TapeLen) and rng.pos the place of the next one.  Every call of   *)
(* random.random() or random.choice() consumes one variate.                *)
(***************************************************************************)
EXTENDS Integers, Sequences, FiniteSets, TLC

VARIABLES call, rng, scale_call, cli, dice, export, bg_call, gui

vars == <<call, rng, scale_call, cli, dice, export, bg_call, gui>>

(* ------------------------------ bounds -------------------------------- *)

\* resolution of a random variate: u in 0..DrawRes-1 stands for u/DrawRes
DrawRes == 4

\* period of the stream of variates
TapeLen == 2

\* largest num_bars explored with every density
MaxBars == 2

\* resolution of the note density: d stands for d/DensityRes
DensityRes == 2

\* largest octaves argument given to generate_scale
MaxOctaves == 3

(* ------------------------- program constants -------------------------- *)

\* note['position'] / 4.0: sixteenth-note steps in one beat
StepsPerBeat == 4

\* num_bars=4, the default of generate_bassline
DefaultNumBars == 4

\* octaves=2, the default of generate_scale (the value generate_bassline uses)
DefaultOctaves == 2

(* ------------------------------ helpers ------------------------------- *)

Range(s) == {s[i] : i \in 1..Len(s)}

RECURSIVE SumSeq(_)
SumSeq(s) == IF s = <<>> THEN 0 ELSE s[1] + SumSeq(Tail(s))

(* ------------------------- musical_scales.py -------------------------- *)

\* self.scales
scales ==
    "major" :> <<0, 2, 4, 5, 7, 9, 11>> @@
    "minor" :> <<0, 2, 3, 5, 7, 8, 10>> @@
    "pentatonic_major" :> <<0, 2, 4, 7, 9>> @@
    "pentatonic_minor" :> <<0, 3, 5, 7, 10>> @@
    "blues" :> <<0, 3, 5, 6, 7, 10>> @@
    "dorian" :> <<0, 2, 3, 5, 7, 9, 10>> @@
    "phrygian" :> <<0, 1, 3, 5, 7, 8, 10>> @@
    "lydian" :> <<0, 2, 4, 6, 7, 9, 11>> @@
    "mixolydian" :> <<0, 2, 4, 5, 7, 9, 10>> @@
    "locrian" :> <<0, 1, 3, 5, 6, 8, 10>> @@
    "harmonic_minor" :> <<0, 2, 3, 5, 7, 8, 11>> @@
    "melodic_minor" :> <<0, 2, 3, 5, 7, 9, 11>> @@
    "hungarian_minor" :> <<0, 2, 3, 6, 7, 8, 11>> @@
    "hirajoshi" :> <<0, 2, 3, 7, 8>> @@
    "persian" :> <<0, 1, 4, 5, 6, 8, 11>> @@
    "byzantine" :> <<0, 1, 4, 5, 7, 8, 11>> @@
    "egyptian" :> <<0, 2, 5, 7, 10>> @@
    "whole_tone" :> <<0, 2, 4, 6, 8, 10>> @@
    "diminished" :> <<0, 2, 3, 5, 6, 8, 9, 11>> @@
    "prometheus" :> <<0, 2, 4, 6, 9, 10>> @@
    "enigmatic" :> <<0, 1, 4, 6, 8, 10, 11>>

\* self.root_notes
root_notes_FlatTypo ==
    "C" :> 36 @@ "C#" :> 37 @@ "Db" :> 37 @@
    "D" :> 38 @@ "D#" :> 39 @@ "Eb" :> 39 @@
    "E" :> 40 @@ "F" :> 41 @@ "F#" :> 42 @@
    "Gb" :> 42 @@ "G" :> 43 @@ "G#" :> 44 @@
    "Ab" :> 44 @@ "A" :> 45 @@ "A#" :> 46 @@
    "Bb" :> 45 @@ "B" :> 47

root_notes ==
    "C" :> 36 @@ "C#" :> 37 @@ "Db" :> 37 @@
    "D" :> 38 @@ "D#" :> 39 @@ "Eb" :> 39 @@
    "E" :> 40 @@ "F" :> 41 @@ "F#" :> 42 @@
    "Gb" :> 42 @@ "G" :> 43 @@ "G#" :> 44 @@
    "Ab" :> 44 @@ "A" :> 45 @@ "A#" :> 46 @@
    "Bb" :> 46 @@ "B" :> 47

\* the inner loop of generate_scale: one octave, in definition order
OctaveNotes_Drift(root_midi, scale_intervals, octave) ==
    [i \in 1..Len(scale_intervals) |->
        root_midi + scale_intervals[i] + (octave * 11)]

OctaveNotes(root_midi, scale_intervals, octave) ==
    [i \in 1..Len(scale_intervals) |->
        root_midi + scale_intervals[i] + (octave * 12)]

\* the outer loop of generate_scale, from octave on: for octave in range(octaves)
RECURSIVE ScaleLoop(_, _, _, _)
ScaleLoop(root_midi, scale_intervals, octave, octaves) ==
    IF octave >= octaves
    THEN <<>>
    ELSE OctaveNotes(root_midi, scale_intervals, octave)
         \o ScaleLoop(root_midi, scale_intervals, octave + 1, octaves)

\* MusicalScales.generate_scale: the list returned, or the error raised
generate_scale(root_note, scale_type, octaves) ==
    IF root_note \notin DOMAIN root_notes
    THEN [raised |-> "ValueError: Invalid root note", notes |-> <<>>]
    ELSE IF scale_type \notin DOMAIN scales
    THEN [raised |-> "ValueError: Invalid scale type", notes |-> <<>>]
    ELSE [raised |-> "",
          notes |-> ScaleLoop(root_notes[root_note], scales[scale_type], 0, octaves)]

(* --------------------- bassline_generator_core.py --------------------- *)

\* self.rhythm_patterns
rhythm_patterns ==
    "Funk" :> << <<1, 0, 1, 0, 1, 0, 1, 0, 1, 0, 1, 1, 0, 1, 1, 0>>,
                 <<1, 0, 1, 1, 0, 1, 1, 0, 1, 0, 1, 0, 1, 1, 0, 0>> >> @@
    "Darksynth" :> << <<1, 0, 0, 1, 0, 0, 1, 0, 1, 0, 1, 1, 0, 1, 0, 0>>,
                      <<1, 0, 1, 0, 1, 1, 0, 0, 1, 0, 0, 1, 1, 0, 1, 0>> >> @@
    "Pop" :> << <<1, 0, 0, 0, 1, 0, 0, 0, 1, 0, 0, 1, 0, 0, 0, 0>>,
                <<1, 0, 0, 1, 0, 0, 1, 0, 0, 1, 0, 0, 1, 0, 0, 0>> >> @@
    "Trap" :> << <<1, 0, 0, 0, 0, 1, 0, 0, 1, 0, 0, 0, 0, 1, 0, 0>>,
                 <<1, 0, 0, 0, 1, 0, 0, 1, 0, 0, 1, 0, 0, 0, 0, 0>> >>

\* self.note_durations, in quarter beats: [0.25, 0.5, 0.75, 1.0, 1.5, 2.0]
note_durations_Odd == <<1, 2, 3, 4, 5, 8>>

note_durations == <<1, 2, 3, 4, 6, 8>>

\* line 76: 'position': (bar * 16) + step
NotePosition_OneBased(bar, step) == (bar * 16) + step + 1

NotePosition_HalfBar(bar, step) == (bar * 8) + step

NotePosition_Beat(bar, step) == (bar * 16) + ((step \div 4) * 4)

NotePosition(bar, step) == (bar * 16) + step

\* the process-wide generator: the next variate, and the generator after it
NextVariate(g) == g.tape[g.pos]

Advance(g) == [g EXCEPT !.pos = (@ + 1) % TapeLen]

\* random.choice(seq) on variate u: a uniform index of seq
random_choice(seq, u) == seq[((u * Len(seq)) \div DrawRes) + 1]

\* random.random() <= note_density, on variate u (u/DrawRes) and density
\* d/res
DensityPasses_Flipped(u, d, res) == u * res >= d * DrawRes

DensityPasses(u, d, res) == u * res <= d * DrawRes

\* scale_notes[:len(scale_notes)//2]
LowerHalf_Whole(scale_notes) == scale_notes

LowerHalf_Third(scale_notes) == SubSeq(scale_notes, 1, Len(scale_notes) \div 3)

LowerHalf(scale_notes) == SubSeq(scale_notes, 1, Len(scale_notes) \div 2)

\* the frame of a call of generate_bassline that has not started
NewCall(root_note, scale_type, genre, num_bars, note_density) ==
    [pc |-> "call",
     root_note |-> root_note, scale_type |-> scale_type, genre |-> genre,
     num_bars |-> num_bars, note_density |-> note_density,
     \* the unit of note_density: it stands for note_density/density_res
     density_res |-> DensityRes,
     scale_notes |-> <<>>, bassline |-> <<>>,
     bar |-> 0, step |-> 0, pattern |-> <<>>,
     raised |-> "",
     \* history, not read by the code: variates consumed, the template drawn
     \* for each bar, whether the forced note was added, and the bar and step
     \* at which each note of the loop was emitted
     drawn |-> 0, templates |-> <<>>, forced |-> FALSE, origins |-> <<>>]

\* lines 57-58: scale_notes = generate_scale(...); bassline = []
EnterCall(w) ==
    LET f == w.call
        s == generate_scale(f.root_note, f.scale_type, DefaultOctaves)
    IN  IF s.raised # ""
        THEN [w EXCEPT !.call.pc = "raised", !.call.raised = s.raised]
        ELSE [w EXCEPT !.call.pc = "loop", !.call.scale_notes = s.notes,
                       !.call.bassline = <<>>, !.call.bar = 0]

\* lines 64-81: one iteration of `for step, hit in enumerate(pattern)`
PatternStep(w) ==
    LET f == w.call
        hit == f.pattern[f.step + 1]
        u_density == NextVariate(w.rng)
        g1 == Advance(w.rng)
        half == LowerHalf(f.scale_notes)
        lower_half_notes == IF half = <<>> THEN f.scale_notes ELSE half
        note == random_choice(lower_half_notes, NextVariate(g1))
        g2 == Advance(g1)
        duration == random_choice(note_durations, NextVariate(g2))
        g3 == Advance(g2)
        note_data == [note |-> note,
                      position |-> NotePosition(f.bar, f.step),
                      duration |-> duration,
                      velocity |-> 100]
    IN  IF hit = 0
        THEN [w EXCEPT !.call.step = @ + 1]
        ELSE IF ~DensityPasses(u_density, f.note_density, f.density_res)
        THEN [w EXCEPT !.call.step = @ + 1, !.call.drawn = @ + 1, !.rng = g1]
        ELSE [w EXCEPT !.call.step = @ + 1, !.call.drawn = @ + 3, !.rng = g3,
                       !.call.bassline = Append(@, note_data),
                       !.call.origins = Append(@, [bar |-> f.bar, step |-> f.step])]

\* the whole inner loop, from w.call.step on
RECURSIVE PatternLoop(_)
PatternLoop(w) ==
    IF w.call.step >= Len(w.call.pattern) THEN w ELSE PatternLoop(PatternStep(w))

\* lines 60-81: one iteration of `for bar in range(num_bars)`
BarStep(w) ==
    LET f == w.call
        pattern == random_choice(rhythm_patterns[f.genre], NextVariate(w.rng))
    IN  IF f.genre \notin DOMAIN rhythm_patterns
        THEN [w EXCEPT !.call.pc = "raised", !.call.raised = "KeyError"]
        ELSE LET done == PatternLoop([w EXCEPT !.call.pattern = pattern,
                                               !.call.step = 0,
                                               !.call.drawn = @ + 1,
                                               !.call.templates = Append(@, pattern),
                                               !.rng = Advance(w.rng)])
             IN  [done EXCEPT !.call.bar = @ + 1]

\* lines 83-93: ensure at least one note is generated, and return
EnsureNote_Skip(w) == [w EXCEPT !.call.pc = "done"]

EnsureNote(w) ==
    LET f == w.call
        half == LowerHalf(f.scale_notes)
        note == random_choice(half, NextVariate(w.rng))
    IN  IF f.bassline # <<>>
        THEN [w EXCEPT !.call.pc = "done"]
        ELSE IF half = <<>>
        THEN [w EXCEPT !.call.pc = "raised", !.call.raised = "IndexError",
                       !.call.drawn = @ + 1, !.rng = Advance(w.rng)]
        ELSE [w EXCEPT !.call.pc = "done", !.call.forced = TRUE,
                       !.call.drawn = @ + 1, !.rng = Advance(w.rng),
                       !.call.bassline =
                           Append(@, [note |-> note, position |-> 0,
                                      duration |-> StepsPerBeat,
                                      velocity |-> 100])]

(* ------------------------------ inputs -------------------------------- *)

RootInputs == {"C", "B", "H"}

ScaleInputs == {"major", "pentatonic_minor", "diminished", "chromatic"}

GenreInputs == DOMAIN rhythm_patterns \cup {"Jazz"}

BarInputs == (0..MaxBars) \cup {DefaultNumBars}

\* densities -1/DensityRes .. 1 + 1/DensityRes: below, inside and above [0,1]
DensityInputs == (0 - 1)..(DensityRes + 1)

Tapes == [0..(TapeLen - 1) -> 0..(DrawRes - 1)]

World == [call |-> call, rng |-> rng]

NoCall == [pc |-> "none"]

NoScaleCall == [pc |-> "none"]

NoRng == [tape |-> <<>>, pos |-> 0]

NoCli == [pc |-> "none"]

NoDice == [pc |-> "none"]

NoExport == [pc |-> "none"]

NoGui == [pc |-> "none"]

(* ----------------- specification: generate_bassline ------------------- *)

\* a call of generate_bassline about to start, the generator in any state;
\* the default num_bars is explored at density 0 only, the others at every
\* density
Init ==
    /\ \E root_note \in RootInputs, scale_type \in ScaleInputs,
          genre \in GenreInputs, num_bars \in BarInputs,
          note_density \in DensityInputs :
            /\ num_bars <= MaxBars \/ note_density = 0
            /\ call = NewCall(root_note, scale_type, genre, num_bars, note_density)
    /\ \E tape \in Tapes : rng = [tape |-> tape, pos |-> 0]
    /\ scale_call = NoScaleCall
    /\ cli = NoCli
    /\ dice = NoDice
    /\ export = NoExport
    /\ bg_call = NoCall
    /\ gui = NoGui

Enter ==
    /\ call.pc = "call"
    /\ call' = EnterCall(World).call
    /\ rng' = EnterCall(World).rng
    /\ UNCHANGED <<scale_call, cli, dice, export, bg_call, gui>>

GenerateBar ==
    /\ call.pc = "loop"
    /\ call.bar < call.num_bars
    /\ call' = BarStep(World).call
    /\ rng' = BarStep(World).rng
    /\ UNCHANGED <<scale_call, cli, dice, export, bg_call, gui>>

Return ==
    /\ call.pc = "loop"
    /\ ~(call.bar < call.num_bars)
    /\ call' = EnsureNote(World).call
    /\ rng' = EnsureNote(World).rng
    /\ UNCHANGED <<scale_call, cli, dice, export, bg_call, gui>>

Next == Enter \/ GenerateBar \/ Return

Spec == Init /\ [][Next]_vars

(* ------------------- specification: generate_scale -------------------- *)

ScaleInit ==
    /\ \E root_note \in DOMAIN root_notes \cup {"H"},
          scale_type \in DOMAIN scales \cup {"chromatic"},
          octaves \in 0..MaxOctaves :
            scale_call = [pc |-> "call", root_note |-> root_note,
                          scale_type |-> scale_type, octaves |-> octaves,
                          raised |-> "", notes |-> <<>>]
    /\ call = NoCall
    /\ rng = NoRng
    /\ cli = NoCli
    /\ dice = NoDice
    /\ export = NoExport
    /\ bg_call = NoCall
    /\ gui = NoGui

ScaleGenerate ==
    /\ scale_call.pc = "call"
    /\ LET s == generate_scale(scale_call.root_note, scale_call.scale_type,
                               scale_call.octaves)
       IN  scale_call' = [scale_call EXCEPT
                             !.pc = IF s.raised # "" THEN "raised" ELSE "done",
                             !.raised = s.raised,
                             !.notes = s.notes]
    /\ UNCHANGED <<call, rng, cli, dice, export, bg_call, gui>>

ScaleNext == ScaleGenerate

ScaleSpec == ScaleInit /\ [][ScaleNext]_vars

(* -------------------- text typed at a prompt (str) -------------------- *)

\* A line read by input() is a sequence of one-character strings.  The
\* blank is the only whitespace character of the lines explored.
UpperCase == <<"A", "B", "C", "D", "E", "F", "G", "H", "I", "J", "K", "L", "M",
               "N", "O", "P", "Q", "R", "S", "T", "U", "V", "W", "X", "Y", "Z">>

LowerCase == <<"a", "b", "c", "d", "e", "f", "g", "h", "i", "j", "k", "l", "m",
               "n", "o", "p", "q", "r", "s", "t", "u", "v", "w", "x", "y", "z">>

Digits == <<"0", "1", "2", "3", "4", "5", "6", "7", "8", "9">>

char_lower(c) ==
    IF c \in Range(UpperCase)
    THEN LowerCase[CHOOSE i \in DOMAIN UpperCase : UpperCase[i] = c]
    ELSE c

char_upper(c) ==
    IF c \in Range(LowerCase)
    THEN UpperCase[CHOOSE i \in DOMAIN LowerCase : LowerCase[i] = c]
    ELSE c

RECURSIVE str_lstrip(_)
str_lstrip(t) ==
    IF t # <<>> /\ Head(t) = " " THEN str_lstrip(Tail(t)) ELSE t

RECURSIVE str_rstrip(_)
str_rstrip(t) ==
    IF t # <<>> /\ t[Len(t)] = " "
    THEN str_rstrip(SubSeq(t, 1, Len(t) - 1))
    ELSE t

\* str.strip()
str_strip(t) == str_rstrip(str_lstrip(t))

\* str.lower()
str_lower(t) == [i \in 1..Len(t) |-> char_lower(t[i])]

\* str.capitalize(): first character upper case, the others lower case
str_capitalize(t) ==
    [i \in 1..Len(t) |-> IF i = 1 THEN char_upper(t[i]) ELSE char_lower(t[i])]

\* the string made of the characters of t
RECURSIVE Str(_)
Str(t) == IF t = <<>> THEN "" ELSE Head(t) \o Str(Tail(t))

IsDigits(t) == t # <<>> /\ \A i \in 1..Len(t) : t[i] \in Range(Digits)

RECURSIVE DigitsValue(_)
DigitsValue(t) ==
    IF t = <<>>
    THEN 0
    ELSE (DigitsValue(SubSeq(t, 1, Len(t) - 1)) * 10)
         + ((CHOOSE d \in DOMAIN Digits : Digits[d] = t[Len(t)]) - 1)

RECURSIVE Pow10(_)
Pow10(k) == IF k = 0 THEN 1 ELSE 10 * Pow10(k - 1)

\* the sign of a numeric literal and the literal without it
Unsigned(s) == IF s # <<>> /\ Head(s) \in {"+", "-"} THEN Tail(s) ELSE s

Sign(s) == IF s # <<>> /\ Head(s) = "-" THEN 0 - 1 ELSE 1

\* int(text): surrounding blanks, an optional sign, decimal digits
py_int(t) ==
    LET s == str_strip(t)
    IN  IF IsDigits(Unsigned(s))
        THEN [raised |-> "", value |-> Sign(s) * DigitsValue(Unsigned(s))]
        ELSE [raised |-> "ValueError", value |-> 0]

\* float(text): surrounding blanks, an optional sign, then "nan" in any case
\* or digits with an optional decimal point and at least one digit.  The
\* value is num/den; the literals explored have few digits and their
\* comparisons with 0.0 and 1.0 are those of the exact values.
py_float(t) ==
    LET s == str_strip(t)
        u == Unsigned(s)
        dots == {i \in 1..Len(u) : u[i] = "."}
        dot == IF dots = {} THEN Len(u) + 1 ELSE CHOOSE i \in dots : TRUE
        whole == SubSeq(u, 1, dot - 1)
        frac == SubSeq(u, dot + 1, Len(u))
    IN  IF Str(str_lower(u)) = "nan"
        THEN [raised |-> "", nan |-> TRUE, num |-> 0, den |-> 1]
        ELSE IF /\ Cardinality(dots) <= 1
                /\ whole \o frac # <<>>
                /\ \A i \in 1..Len(whole \o frac) :
                       (whole \o frac)[i] \in Range(Digits)
             THEN [raised |-> "", nan |-> FALSE,
                   num |-> Sign(s) * DigitsValue(whole \o frac),
                   den |-> Pow10(Len(frac))]
             ELSE [raised |-> "ValueError", nan |-> FALSE, num |-> 0, den |-> 1]

(* --------------------------- dice_roller.py --------------------------- *)

\* round(x, 2) keeps hundredths: a rolled density d stands for d/RoundRes
RoundRes == 100

\* most rolls explored in one call of interactive_roll
MaxRolls == 3

\* list(root_notes.keys()): the keys in the order of the table's literal
RootNoteKeys ==
    <<"C", "C#", "Db", "D", "D#", "Eb", "E", "F", "F#", "Gb", "G", "G#", "Ab",
      "A", "A#", "Bb", "B">>

\* sorted(self.scales.keys())
get_available_scales ==
    <<"blues", "byzantine", "diminished", "dorian", "egyptian", "enigmatic",
      "harmonic_minor", "hirajoshi", "hungarian_minor", "locrian", "lydian",
      "major", "melodic_minor", "minor", "mixolydian", "pentatonic_major",
      "pentatonic_minor", "persian", "phrygian", "prometheus", "whole_tone">>

\* sorted(list(self.rhythm_patterns.keys()))
get_available_genres == <<"Darksynth", "Funk", "Pop", "Trap">>

\* random.randint(a, b) on the variate u
random_randint(a, b, u) == a + ((u * ((b - a) + 1)) \div DrawRes)

\* round(random.uniform(a, b), 2) on the variate u, with a and b given in
\* hundredths: a + (b - a) * u/DrawRes rounded to the nearest hundredth.  A
\* value halfway between two hundredths (0.475, 0.825) is stored in binary
\* just below the halfway point and rounds down.
uniform_round2_Up(a, b, u) ==
    (((a * DrawRes) + ((b - a) * u)) \div DrawRes) + RoundRes

uniform_round2(a, b, u) ==
    LET num == (a * DrawRes) + ((b - a) * u)
    IN  IF 2 * (num % DrawRes) > DrawRes
        THEN (num \div DrawRes) + 1
        ELSE num \div DrawRes

\* roll_parameters: five draws, in the order of the dict literal
roll_parameters(g) ==
    LET g1 == Advance(g)
        g2 == Advance(g1)
        g3 == Advance(g2)
        g4 == Advance(g3)
    IN  [params |->
            [root_note |-> random_choice(RootNoteKeys, NextVariate(g)),
             scale_type |-> random_choice(get_available_scales, NextVariate(g1)),
             genre |-> random_choice(get_available_genres, NextVariate(g2)),
             tempo |-> random_randint(60, 180, NextVariate(g3)),
             bars |-> 8,
             note_density |-> uniform_round2(30, 100, NextVariate(g4))],
         rng |-> Advance(g4)]

\* Python's None, and a returned dict, as the value of a call
None == <<>>

\* interactive_roll is entered: nothing rolled, shown or answered yet.
\* rolled, shown and answers record the history of the call: the parameter
\* sets returned by roll_parameters, the sets printed, the answers read.
NewDice ==
    [pc |-> "roll", params |-> None, rolled |-> <<>>, shown |-> <<>>,
     prompts |-> 0, answers |-> <<>>, result |-> None]

\* one iteration of the loop up to the call of input(): roll, print, prompt
RollAndPrompt(d, g) ==
    LET r == roll_parameters(g)
    IN  [dice |-> [d EXCEPT !.pc = "wait",
                            !.params = <<r.params>>,
                            !.rolled = Append(@, r.params),
                            !.shown = Append(@, r.params),
                            !.prompts = @ + 1],
         rng |-> r.rng]

\* the rest of the iteration, once input() has returned the line typed
ReadAnswer_FirstRoll(d, line) ==
    LET confirm == Str(str_lower(str_strip(line)))
    IN  [d EXCEPT !.answers = Append(@, confirm),
                  !.pc = IF confirm \in {"y", "n"} THEN "returned" ELSE "roll",
                  !.result = IF confirm = "y" THEN <<d.rolled[1]>> ELSE None]

ReadAnswer_AskAgain(d, line) ==
    LET confirm == Str(str_lower(str_strip(line)))
    IN  [d EXCEPT !.answers = Append(@, confirm),
                  !.pc = IF confirm \in {"y", "n"} THEN "returned"
                         ELSE IF confirm = "r" THEN "roll" ELSE "wait",
                  !.prompts = IF confirm \in {"y", "n", "r"} THEN @ ELSE @ + 1,
                  !.result = IF confirm = "y" THEN d.params ELSE None]

ReadAnswer(d, line) ==
    LET confirm == Str(str_lower(str_strip(line)))
    IN  [d EXCEPT !.answers = Append(@, confirm),
                  !.pc = IF confirm \in {"y", "n"} THEN "returned" ELSE "roll",
                  !.result = IF confirm = "y" THEN d.params ELSE None]

(* ------------- create_midi_file and create_preview (export) ----------- *)

\* most note events of an exported sequence
MaxNotes == 2

\* note['position'] / 4.0: a time in beats, as whole beats and quarters
BeatPosition_Bar(position) ==
    [whole |-> position \div (StepsPerBeat * StepsPerBeat),
     quarters |-> position % StepsPerBeat]

BeatPosition(position) ==
    [whole |-> position \div StepsPerBeat, quarters |-> position % StepsPerBeat]

\* the arguments of one call of midi.addNote
AddNote(note_data) ==
    [track |-> 0, channel |-> 0, pitch |-> note_data.note,
     time |-> BeatPosition(note_data.position),
     duration |-> note_data.duration, volume |-> note_data.velocity]

\* the calls of midi.addNote made by the loop over the bassline, in order
AddNotes(bassline) == [i \in 1..Len(bassline) |-> AddNote(bassline[i])]

\* create_midi_file(bassline, filename, tempo); io_ok tells whether the
\* Desktop directory and the file could be written.  The value carries the
\* exception raised (if any), the MIDIFile built and the list passed in as
\* the call leaves it.
create_midi_file(bassline, tempo, io_ok) ==
    IF bassline = <<>>
    THEN [raised |-> "ValueError", tempo |-> 0, added |-> <<>>,
          written |-> FALSE, bassline |-> bassline]
    ELSE [raised |-> IF io_ok THEN "" ELSE "OSError",
          tempo |-> tempo, added |-> AddNotes(bassline),
          written |-> io_ok, bassline |-> bassline]

\* create_preview(bassline, tempo): every failure after the emptiness test
\* is re-raised as RuntimeError
create_preview(bassline, tempo, io_ok) ==
    IF bassline = <<>>
    THEN [raised |-> "ValueError", tempo |-> 0, added |-> <<>>,
          written |-> FALSE, bassline |-> bassline]
    ELSE [raised |-> IF io_ok THEN "" ELSE "RuntimeError",
          tempo |-> tempo, added |-> AddNotes(bassline),
          written |-> io_ok, bassline |-> bassline]

\* no call made yet
NoFile == [raised |-> "", tempo |-> 0, added |-> <<>>, written |-> FALSE,
           bassline |-> <<>>]

(* ------------------------- main_program.py ---------------------------- *)

\* main() is at the mode prompt, no parameter entered yet.  last tells how
\* the latest line read by main() was taken: "ok", "invalid" (refused with
\* a message) or "rejected" (a dice roll answered 'n'); "none" before the
\* first line.
NewCli ==
    [pc |-> "mode", mode |-> "", root_note |-> "", scale_type |-> "",
     genre |-> "", tempo |-> 0, bars |-> 0,
     note_density |-> [num |-> 0, den |-> 1],
     last |-> "none", file |-> NoFile]

\* `continue` of the outer loop, and its `except ValueError`: back to the
\* mode prompt.  The parameters entered so far are all assigned again
\* before they are read, and are dropped here.
BackToMode(how) == [NewCli EXCEPT !.last = how]

\* lines 25-27, 71, 87-89
ReadMode(c, line) ==
    LET mode == Str(str_strip(line))
    IN  IF mode = "1" THEN [c EXCEPT !.pc = "root", !.mode = mode, !.last = "ok"]
        ELSE IF mode = "2"
             THEN [c EXCEPT !.pc = "dice", !.mode = mode, !.last = "ok"]
             ELSE BackToMode("invalid")

\* lines 30-33
ReadRoot(c, line) ==
    LET root_note == Str(str_strip(line))
    IN  IF root_note \notin DOMAIN root_notes
        THEN BackToMode("invalid")
        ELSE [c EXCEPT !.pc = "scale", !.root_note = root_note, !.last = "ok"]

\* lines 36-49: one iteration of the inner loop
ReadScale(c, line) ==
    LET scale_list == get_available_scales
        parsed == py_int(line)
        scale_index == parsed.value - 1
    IN  IF parsed.raised # "" THEN [c EXCEPT !.last = "invalid"]
        ELSE IF 0 <= scale_index /\ scale_index < Len(scale_list)
             THEN [c EXCEPT !.pc = "genre",
                            !.scale_type = scale_list[scale_index + 1],
                            !.last = "ok"]
             ELSE [c EXCEPT !.last = "invalid"]

\* lines 51-54
ReadGenre(c, line) ==
    LET genre == Str(str_capitalize(str_strip(line)))
    IN  IF genre \notin DOMAIN rhythm_patterns
        THEN BackToMode("invalid")
        ELSE [c EXCEPT !.pc = "tempo", !.genre = genre, !.last = "ok"]

\* lines 56-59
ReadTempo_Wide(c, line) ==
    LET parsed == py_int(str_strip(line))
    IN  IF parsed.raised # "" THEN BackToMode("invalid")
        ELSE [c EXCEPT !.pc = "bars", !.tempo = parsed.value, !.last = "ok"]

ReadTempo(c, line) ==
    LET parsed == py_int(str_strip(line))
    IN  IF parsed.raised # "" THEN BackToMode("invalid")
        ELSE IF ~(40 <= parsed.value /\ parsed.value <= 240)
             THEN BackToMode("invalid")
             ELSE [c EXCEPT !.pc = "bars", !.tempo = parsed.value, !.last = "ok"]

\* lines 61-64
ReadBars(c, line) ==
    LET parsed == py_int(str_strip(line))
    IN  IF parsed.raised # "" THEN BackToMode("invalid")
        ELSE IF ~(1 <= parsed.value /\ parsed.value <= 16)
             THEN BackToMode("invalid")
             ELSE [c EXCEPT !.pc = "density", !.bars = parsed.value, !.last = "ok"]

\* lines 66-69 and the break of line 91; a nan fails both comparisons
ReadDensity(c, line) ==
    LET parsed == py_float(str_strip(line))
    IN  IF parsed.raised # "" THEN BackToMode("invalid")
        ELSE IF ~(/\ ~parsed.nan
                  /\ 0 <= parsed.num
                  /\ parsed.num <= parsed.den)
             THEN BackToMode("invalid")
             ELSE [c EXCEPT !.pc = "generate",
                            !.note_density = [num |-> parsed.num,
                                              den |-> parsed.den],
                            !.last = "ok"]

\* lines 73-85 and the break of line 91, once interactive_roll has returned
TakeRoll(c, result) ==
    IF result = None
    THEN BackToMode("rejected")
    ELSE LET params == result[1]
         IN  [c EXCEPT !.pc = "generate",
                       !.root_note = params.root_note,
                       !.scale_type = params.scale_type,
                       !.genre = params.genre,
                       !.tempo = params.tempo,
                       !.bars = params.bars,
                       !.note_density = [num |-> params.note_density,
                                         den |-> RoundRes],
                       !.last = "ok"]

\* line 97: the call of generate_bassline with the parameters of main()
CallGenerate(c) ==
    [NewCall(c.root_note, c.scale_type, c.genre, c.bars, c.note_density.num)
        EXCEPT !.density_res = c.note_density.den]

\* lines 97-103 once generate_bassline has returned or raised: an
\* exception leaves main(); otherwise the file is written
WriteFile(c, f, io_ok) ==
    IF f.pc = "raised"
    THEN [c EXCEPT !.pc = "crashed"]
    ELSE LET file == create_midi_file(f.bassline, c.tempo, io_ok)
         IN  [c EXCEPT !.pc = IF file.raised = "" THEN "exit" ELSE "crashed",
                       !.file = file]

(* ------------- specification: main() of the command line -------------- *)

\* the lines typed at each prompt
ModeLines == {<<"1">>, <<"2">>, <<" ", "2", " ">>, <<"3">>, <<>>}

RootLines == {<<"C">>, <<" ", "B">>, <<"c">>, <<"H">>}

ScaleLines ==
    {<<"0">>, <<" ", "1", "2">>, <<"2", "2">>, <<"-", "1">>,
     <<"m", "a", "j", "o", "r">>}

GenreLines ==
    {<<"f", "u", "n", "k">>, <<" ", "T", "R", "A", "P">>,
     <<"J", "a", "z", "z">>, <<>>}

TempoLines ==
    {<<"3", "9">>, <<"4", "0">>, <<" ", "2", "4", "0">>, <<"2", "4", "1">>,
     <<"9", "0", ".", "5">>, <<"f", "a", "s", "t">>}

BarLines ==
    {<<"0">>, <<"1">>, <<"1", "6">>, <<"1", "7">>, <<"t", "w", "o">>}

DensityLines ==
    {<<"-", "0", ".", "1">>, <<"0">>, <<".", "5">>, <<"1", ".", "0">>,
     <<"1", ".", "0", "1">>, <<"n", "a", "n">>, <<"h", "i", "g", "h">>}

AnswerLines ==
    {<<"y">>, <<" ", "Y">>, <<"n">>, <<"N", " ">>, <<"r">>, <<"R">>,
     <<"y", "e", "s">>, <<>>}

CliInit ==
    /\ cli = NewCli
    /\ dice = NoDice
    /\ call = NoCall
    /\ \E tape \in Tapes : rng = [tape |-> tape, pos |-> 0]
    /\ scale_call = NoScaleCall
    /\ export = NoExport
    /\ bg_call = NoCall
    /\ gui = NoGui

CliMode ==
    /\ cli.pc = "mode"
    /\ \E line \in ModeLines :
          /\ cli' = ReadMode(cli, line)
          /\ dice' = IF cli'.pc = "dice" THEN NewDice ELSE dice
    /\ UNCHANGED <<call, rng, scale_call, export, bg_call, gui>>

CliRoot ==
    /\ cli.pc = "root"
    /\ \E line \in RootLines : cli' = ReadRoot(cli, line)
    /\ UNCHANGED <<call, rng, scale_call, dice, export, bg_call, gui>>

CliScale ==
    /\ cli.pc = "scale"
    /\ \E line \in ScaleLines : cli' = ReadScale(cli, line)
    /\ UNCHANGED <<call, rng, scale_call, dice, export, bg_call, gui>>

CliGenre ==
    /\ cli.pc = "genre"
    /\ \E line \in GenreLines : cli' = ReadGenre(cli, line)
    /\ UNCHANGED <<call, rng, scale_call, dice, export, bg_call, gui>>

CliTempo ==
    /\ cli.pc = "tempo"
    /\ \E line \in TempoLines : cli' = ReadTempo(cli, line)
    /\ UNCHANGED <<call, rng, scale_call, dice, export, bg_call, gui>>

CliBars ==
    /\ cli.pc = "bars"
    /\ \E line \in BarLines : cli' = ReadBars(cli, line)
    /\ UNCHANGED <<call, rng, scale_call, dice, export, bg_call, gui>>

CliDensity ==
    /\ cli.pc = "density"
    /\ \E line \in DensityLines : cli' = ReadDensity(cli, line)
    /\ call' = IF cli'.pc = "generate" THEN CallGenerate(cli') ELSE call
    /\ UNCHANGED <<rng, scale_call, dice, export, bg_call, gui>>

DiceRoll ==
    /\ cli.pc = "dice"
    /\ dice.pc = "roll"
    /\ Len(dice.rolled) < MaxRolls
    /\ dice' = RollAndPrompt(dice, rng).dice
    /\ rng' = RollAndPrompt(dice, rng).rng
    /\ UNCHANGED <<call, scale_call, cli, export, bg_call, gui>>

DiceAnswer ==
    /\ cli.pc = "dice"
    /\ dice.pc = "wait"
    /\ \E line \in AnswerLines : dice' = ReadAnswer(dice, line)
    /\ UNCHANGED <<call, rng, scale_call, cli, export, bg_call, gui>>

\* interactive_roll returns to main(): its frame is gone
DiceReturn ==
    /\ cli.pc = "dice"
    /\ dice.pc = "returned"
    /\ cli' = TakeRoll(cli, dice.result)
    /\ dice' = NoDice
    /\ call' = IF cli'.pc = "generate" THEN CallGenerate(cli') ELSE call
    /\ UNCHANGED <<rng, scale_call, export, bg_call, gui>>

CliWrite ==
    /\ cli.pc = "generate"
    /\ call.pc \in {"done", "raised"}
    /\ \E io_ok \in BOOLEAN : cli' = WriteFile(cli, call, io_ok)
    /\ UNCHANGED <<call, rng, scale_call, dice, export, bg_call, gui>>

CliNext ==
    \/ CliMode \/ CliRoot \/ CliScale \/ CliGenre \/ CliTempo \/ CliBars
    \/ CliDensity \/ DiceRoll \/ DiceAnswer \/ DiceReturn
    \/ Enter \/ GenerateBar \/ Return \/ CliWrite

CliSpec == CliInit /\ [][CliNext]_vars

(* ------------------- specification: the exporters --------------------- *)

\* note events as an exporter may receive them, in any order
NoteEvents ==
    [note : {28, 43}, position : {0, 5, 18}, duration : {1, 4},
     velocity : {64, 100}]

Basslines == UNION {[1..n -> NoteEvents] : n \in 0..MaxNotes}

\* a list of note events about to be exported; input is the list as it was
\* passed, bassline the list object as the calls leave it
ExportInit ==
    /\ \E b \in Basslines, tempo \in {90, 120} :
          export = [pc |-> "call", input |-> b, bassline |-> b,
                    tempo |-> tempo,
                    file_called |-> FALSE, file |-> NoFile,
                    preview_called |-> FALSE, preview |-> NoFile]
    /\ call = NoCall
    /\ rng = NoRng
    /\ scale_call = NoScaleCall
    /\ cli = NoCli
    /\ dice = NoDice
    /\ bg_call = NoCall
    /\ gui = NoGui

ExportFile ==
    /\ export.pc = "call"
    /\ ~export.file_called
    /\ \E io_ok \in BOOLEAN :
          LET r == create_midi_file(export.bassline, export.tempo, io_ok)
          IN  export' = [export EXCEPT !.file_called = TRUE, !.file = r,
                                       !.bassline = r.bassline]
    /\ UNCHANGED <<call, rng, scale_call, cli, dice, bg_call, gui>>

ExportPreview ==
    /\ export.pc = "call"
    /\ ~export.preview_called
    /\ \E io_ok \in BOOLEAN :
          LET r == create_preview(export.bassline, export.tempo, io_ok)
          IN  export' = [export EXCEPT !.preview_called = TRUE, !.preview = r,
                                       !.bassline = r.bassline]
    /\ UNCHANGED <<call, rng, scale_call, cli, dice, bg_call, gui>>

ExportNext == ExportFile \/ ExportPreview

ExportSpec == ExportInit /\ [][ExportNext]_vars

(* --------- specification: two generations of the GUI at once ---------- *)

\* _preview_bassline calls generate_bassline on the main thread (frame call)
\* while _generate_bassline_thread calls it on the background thread (frame
\* bg_call).  Both calls draw from the generator of the random module, rng.
\* A thread may be preempted between any two draws; the model switches
\* threads between bars only.
BgWorld == [call |-> bg_call, rng |-> rng]

\* both handlers have read the same root, scale, genre and density from the
\* widgets; the bar count may have been changed between the two clicks
ConcInit ==
    /\ \E genre \in {"Funk", "Trap"}, note_density \in 1..DensityRes,
          bars \in 1..MaxBars, bg_bars \in 1..MaxBars :
          /\ call = NewCall("C", "major", genre, bars, note_density)
          /\ bg_call = NewCall("C", "major", genre, bg_bars, note_density)
    /\ \E tape \in Tapes : rng = [tape |-> tape, pos |-> 0]
    /\ scale_call = NoScaleCall
    /\ cli = NoCli
    /\ dice = NoDice
    /\ export = NoExport
    /\ gui = NoGui

BgEnter ==
    /\ bg_call.pc = "call"
    /\ bg_call' = EnterCall(BgWorld).call
    /\ rng' = EnterCall(BgWorld).rng
    /\ UNCHANGED <<call, scale_call, cli, dice, export, gui>>

BgGenerateBar ==
    /\ bg_call.pc = "loop"
    /\ bg_call.bar < bg_call.num_bars
    /\ bg_call' = BarStep(BgWorld).call
    /\ rng' = BarStep(BgWorld).rng
    /\ UNCHANGED <<call, scale_call, cli, dice, export, gui>>

BgReturn ==
    /\ bg_call.pc = "loop"
    /\ ~(bg_call.bar < bg_call.num_bars)
    /\ bg_call' = EnsureNote(BgWorld).call
    /\ rng' = EnsureNote(BgWorld).rng
    /\ UNCHANGED <<call, scale_call, cli, dice, export, gui>>

ConcNext ==
    \/ Enter \/ GenerateBar \/ Return
    \/ BgEnter \/ BgGenerateBar \/ BgReturn

ConcSpec == ConcInit /\ [][ConcNext]_vars

(* ----------------------------- gui_main.py ---------------------------- *)

\* a call of generate_bassline run from w to its end with no other draw in
\* between
RECURSIVE Finish(_)
Finish(w) ==
    IF w.call.pc = "call" THEN Finish(EnterCall(w))
    ELSE IF w.call.pc = "loop" /\ w.call.bar < w.call.num_bars
         THEN Finish(BarStep(w))
         ELSE IF w.call.pc = "loop" THEN EnsureNote(w) ELSE w

\* most background generation threads explored in flight
MaxThreads == 2

\* most pending timers of _monitor_preview explored
MaxMonitors == 2

\* str(n) for a natural number n
RECURSIVE py_str(_)
py_str(n) ==
    IF n < 10
    THEN <<Digits[n + 1]>>
    ELSE py_str(n \div 10) \o <<Digits[(n % 10) + 1]>>

\* the application once __init__ has run and mainloop() waits for events:
\* the buttons and variables as the _create_* methods leave them, no
\* thread started, nothing scheduled with root.after, nothing playing.
\* after is the queue of callbacks scheduled with root.after(0, ...),
\* monitors the number of pending root.after(100, self._monitor_preview),
\* playing what pygame.mixer.music.get_busy() returns, reported the last
\* exception that left a callback.
NewGui ==
    [pc |-> "mainloop",
     preview_btn |-> "normal", stop_preview_btn |-> "disabled",
     generate_btn |-> "normal", dice_roll_btn |-> "normal",
     root_note_var |-> "C", scale_type_var |-> "major", genre_var |-> "Funk",
     tempo_var |-> <<"1", "2", "0">>, bars_var |-> <<"4">>,
     density_var |-> [num |-> 1, den |-> 1],
     threads |-> <<>>, after |-> <<>>, monitors |-> 0, playing |-> FALSE,
     reported |-> ""]

\* the params dict of _preview_bassline and _generate_bassline: int() of
\* the two spinbox texts raises ValueError on a text that is no integer
ReadParams(g) ==
    LET tempo == py_int(g.tempo_var)
        bars == py_int(g.bars_var)
    IN  [raised |-> IF tempo.raised # "" THEN tempo.raised ELSE bars.raised,
         root_note |-> g.root_note_var, scale_type |-> g.scale_type_var,
         genre |-> g.genre_var, tempo |-> tempo.value, bars |-> bars.value,
         note_density |-> g.density_var]

\* self.generator.generate_bassline(...) run to its end on the calling
\* thread: the frame of the call as it ends, and the generator after it
GuiGenerate(params, g_rng) ==
    Finish([call |-> [NewCall(params.root_note, params.scale_type,
                              params.genre, params.bars,
                              params.note_density.num)
                         EXCEPT !.density_res = params.note_density.den],
            rng |-> g_rng])

\* _enable_controls
gui_enable_controls(g) ==
    [g EXCEPT !.generate_btn = "normal", !.dice_roll_btn = "normal"]

\* _stop_preview: MIDIPreview.stop_preview stops the music if it is busy
\* and swallows pygame.error, then the two buttons are reset
gui_stop_preview_KeepStop(g) ==
    [g EXCEPT !.playing = FALSE, !.preview_btn = "normal"]

gui_stop_preview(g) ==
    [g EXCEPT !.playing = FALSE, !.preview_btn = "normal",
              !.stop_preview_btn = "disabled"]

\* _monitor_preview, the timer that called it (if any) already consumed
gui_monitor_preview(g) ==
    IF g.playing THEN [g EXCEPT !.monitors = @ + 1] ELSE gui_stop_preview(g)

\* _preview_bassline, "Preview" clicked; io_ok tells whether the preview
\* file could be written, play_ok whether pygame could load and play it.
\* Every exception ends in the error dialog and _stop_preview.
gui_preview_bassline(g, g_rng, io_ok, play_ok) ==
    LET g1 == [g EXCEPT !.preview_btn = "disabled",
                        !.stop_preview_btn = "normal"]
        params == ReadParams(g1)
        done == GuiGenerate(params, g_rng)
        preview == create_preview(done.call.bassline, params.tempo, io_ok)
    IN  IF params.raised # ""
        THEN [gui |-> gui_stop_preview(g1), rng |-> g_rng]
        ELSE IF \/ done.call.pc = "raised"
                \/ done.call.bassline = <<>>
                \/ preview.raised # ""
                \/ ~play_ok
             THEN [gui |-> gui_stop_preview(g1), rng |-> done.rng]
             ELSE [gui |-> gui_monitor_preview([g1 EXCEPT !.playing = TRUE]),
                   rng |-> done.rng]

\* _generate_bassline, "Generate Bassline" clicked; start_ok tells whether
\* the thread could be started.  A started thread holds its params.
gui_generate_bassline_NoDisable(g, start_ok) ==
    LET params == ReadParams(g)
    IN  IF params.raised # "" \/ ~start_ok
        THEN gui_enable_controls(g)
        ELSE [g EXCEPT !.threads = Append(@, params)]

gui_generate_bassline(g, start_ok) ==
    LET g1 == [g EXCEPT !.generate_btn = "disabled",
                        !.dice_roll_btn = "disabled"]
        params == ReadParams(g1)
    IN  IF params.raised # "" \/ ~start_ok
        THEN gui_enable_controls(g1)
        ELSE [g1 EXCEPT !.threads = Append(@, params)]

\* _generate_bassline_thread: the callbacks it schedules with root.after,
\* in order, and the generator after the call of generate_bassline
gui_generate_bassline_thread(params, g_rng, io_ok) ==
    LET done == GuiGenerate(params, g_rng)
        file == create_midi_file(done.call.bassline, params.tempo, io_ok)
    IN  [scheduled |->
            IF done.call.pc = "raised" \/ file.raised # ""
            THEN <<"showerror", "_enable_controls">>
            ELSE <<"_update_status", "_enable_controls">>,
         rng |-> done.rng]

\* _roll_parameters, "Random Parameters" clicked: the six variables are
\* set, then line 314 reads the name random, which the module never
\* imports (only main() does, locally), and the callback ends in NameError
gui_roll_parameters(g, g_rng) ==
    LET r == roll_parameters(g_rng)
    IN  [gui |-> [g EXCEPT !.root_note_var = r.params.root_note,
                           !.scale_type_var = r.params.scale_type,
                           !.genre_var = r.params.genre,
                           !.tempo_var = py_str(r.params.tempo),
                           !.bars_var = py_str(r.params.bars),
                           !.density_var = [num |-> r.params.note_density,
                                            den |-> RoundRes],
                           !.reported = "NameError"],
         rng |-> r.rng]

\* a callback scheduled with root.after(0, ...) is run by the main loop
RunCallback(g, name) ==
    IF name = "_enable_controls" THEN gui_enable_controls(g) ELSE g

(* ------------------ specification: the GUI's main loop ---------------- *)

\* texts typed into the tempo spinbox
TempoTexts == {<<"1", "2", "0">>, <<"f", "a", "s", "t">>}

\* the streams of the generator explored here: the lowest and the highest
\* variate, in any order
GuiTapes == [0..(TapeLen - 1) -> {0, DrawRes - 1}]

GuiInit ==
    /\ gui = NewGui
    /\ \E tape \in GuiTapes : rng = [tape |-> tape, pos |-> 0]
    /\ call = NoCall
    /\ scale_call = NoScaleCall
    /\ cli = NoCli
    /\ dice = NoDice
    /\ export = NoExport
    /\ bg_call = NoCall

ClickPreview ==
    /\ gui.pc = "mainloop"
    /\ gui.preview_btn = "normal"
    /\ gui.monitors < MaxMonitors
    /\ \E io_ok \in BOOLEAN, play_ok \in BOOLEAN :
          \E r \in {gui_preview_bassline(gui, rng, io_ok, play_ok)} :
              /\ gui' = r.gui
              /\ rng' = r.rng
    /\ UNCHANGED <<call, scale_call, cli, dice, export, bg_call>>

ClickStop ==
    /\ gui.pc = "mainloop"
    /\ gui.stop_preview_btn = "normal"
    /\ gui' = gui_stop_preview(gui)
    /\ UNCHANGED <<call, rng, scale_call, cli, dice, export, bg_call>>

MonitorTimer ==
    /\ gui.pc = "mainloop"
    /\ gui.monitors > 0
    /\ gui' = gui_monitor_preview([gui EXCEPT !.monitors = @ - 1])
    /\ UNCHANGED <<call, rng, scale_call, cli, dice, export, bg_call>>

\* the music comes to its end
PlaybackEnds ==
    /\ gui.pc = "mainloop"
    /\ gui.playing
    /\ gui' = [gui EXCEPT !.playing = FALSE]
    /\ UNCHANGED <<call, rng, scale_call, cli, dice, export, bg_call>>

ClickGenerate ==
    /\ gui.pc = "mainloop"
    /\ gui.generate_btn = "normal"
    /\ Len(gui.threads) < MaxThreads
    /\ \E start_ok \in BOOLEAN : gui' = gui_generate_bassline(gui, start_ok)
    /\ UNCHANGED <<call, rng, scale_call, cli, dice, export, bg_call>>

\* a background thread runs from its start to its end
ThreadRun ==
    /\ gui.pc = "mainloop"
    /\ \E i \in 1..Len(gui.threads), io_ok \in BOOLEAN :
          \E t \in {gui_generate_bassline_thread(gui.threads[i], rng, io_ok)} :
              /\ gui' = [gui EXCEPT
                            !.threads = SubSeq(@, 1, i - 1)
                                        \o SubSeq(@, i + 1, Len(@)),
                            !.after = @ \o t.scheduled]
              /\ rng' = t.rng
    /\ UNCHANGED <<call, scale_call, cli, dice, export, bg_call>>

RunAfter ==
    /\ gui.pc = "mainloop"
    /\ gui.after # <<>>
    /\ gui' = [RunCallback(gui, Head(gui.after)) EXCEPT !.after = Tail(@)]
    /\ UNCHANGED <<call, rng, scale_call, cli, dice, export, bg_call>>

ClickRoll ==
    /\ gui.pc = "mainloop"
    /\ gui.dice_roll_btn = "normal"
    /\ \E r \in {gui_roll_parameters(gui, rng)} :
          /\ gui' = r.gui
          /\ rng' = r.rng
    /\ UNCHANGED <<call, scale_call, cli, dice, export, bg_call>>

EditTempo ==
    /\ gui.pc = "mainloop"
    /\ \E text \in TempoTexts : gui' = [gui EXCEPT !.tempo_var = text]
    /\ UNCHANGED <<call, rng, scale_call, cli, dice, export, bg_call>>

GuiNext ==
    \/ ClickPreview \/ ClickStop \/ MonitorTimer \/ PlaybackEnds
    \/ ClickGenerate \/ ThreadRun \/ RunAfter \/ ClickRoll \/ EditTempo

\* The main loop runs the callbacks and timers that are due, and the
\* interpreter schedules a started thread, which then runs to its end.
\* ThreadRun is enabled exactly while gui.threads is not empty and takes a
\* thread out of it, so the fairness of ThreadRun is stated on the state:
\* gui.threads is empty again and again.
GuiSpec ==
    /\ GuiInit
    /\ [][GuiNext]_vars
    /\ WF_vars(RunAfter)
    /\ WF_vars(MonitorTimer)
    /\ []<>(gui.threads = <<>>)

(* ------------------------------- claims ------------------------------- *)

ValidEnums ==
    /\ call.root_note \in DOMAIN root_notes
    /\ call.scale_type \in DOMAIN scales
    /\ call.genre \in DOMAIN rhythm_patterns

ValidRange ==
    /\ call.num_bars >= 1
    /\ call.num_bars <= 16
    /\ call.note_density >= 0
    /\ call.note_density <= DensityRes

Returned == call.pc = "done"

\* the two-octave scale of the call's root and scale type, from the table
CallScale == generate_scale(call.root_note, call.scale_type, 2).notes

\* the number of 1-valued steps of the templates drawn so far
Onsets == SumSeq([b \in 1..Len(call.templates) |-> SumSeq(call.templates[b])])

\* C1: for valid root, scale and genre, num_bars in 1..16 and a density in
\* [0,1], whatever the random draws, the returned bassline holds at least
\* one note.
C1_NonEmpty ==
    (Returned /\ ValidEnums /\ ValidRange) => Len(call.bassline) >= 1

\* C1 witness: a call at density 0 returned with the forced note alone.
C1_Witness ==
    /\ Returned /\ ValidEnums /\ ValidRange
    /\ call.note_density = 0
    /\ call.forced
    /\ Len(call.bassline) = 1

\* C2 (as claimed): at density 0.0 and 4 bars, whatever the draws (r = 0
\* included), the result is exactly one note at position 0, of duration 1.0
\* beat and velocity 100.
C2_OnlyForcedNote ==
    (Returned /\ ValidEnums /\ call.note_density = 0 /\ call.num_bars = 4)
        => /\ Len(call.bassline) = 1
           /\ call.bassline[1].position = 0
           /\ call.bassline[1].duration = StepsPerBeat
           /\ call.bassline[1].velocity = 100

\* C3 (as claimed): with a root note, scale type or genre that is no key of
\* its table, whatever num_bars and the density, the call never returns, has
\* consumed no random draw and produced no note, and once it has failed it
\* has failed with the lookup error of the first unknown value.
C3_RejectsUnknown ==
    (~ValidEnums /\ call.pc # "none")
        => /\ call.pc # "done"
           /\ call.drawn = 0
           /\ call.bassline = <<>>
           /\ call.pc = "raised" =>
                call.raised =
                    IF call.root_note \notin DOMAIN root_notes
                    THEN "ValueError: Invalid root note"
                    ELSE IF call.scale_type \notin DOMAIN scales
                    THEN "ValueError: Invalid scale type"
                    ELSE "KeyError"

\* C4 (as claimed): a call with num_bars < 1 or a density outside [0,1]
\* returns no note sequence.
C4_RangeEnforced ==
    (call.pc # "none" /\
     (call.num_bars < 1 \/ call.note_density < 0 \/ call.note_density > DensityRes))
        => call.pc # "done"

\* C5: every note returned for a valid parameter set, the forced note
\* included, has its pitch among the first floor(len/2) entries of the
\* two-octave scale of the given root and scale type.
C5_PitchInLowerHalf ==
    (Returned /\ ValidEnums /\ ValidRange)
        => \A i \in 1..Len(call.bassline) :
              \E k \in 1..(Len(CallScale) \div 2) :
                  call.bassline[i].note = CallScale[k]

\* C5 witness: a returned bassline with a pitch, drawn in the loop, more
\* than 6 semitones above the root.
C5_Witness ==
    /\ Returned /\ ValidEnums /\ ValidRange
    /\ ~call.forced
    /\ \E i \in 1..Len(call.bassline) :
          call.bassline[i].note > root_notes[call.root_note] + 6

\* C6: every note returned for a valid parameter set has a duration among
\* 0.25, 0.5, 0.75, 1.0, 1.5, 2.0 beats and velocity 100.
C6_DurationAndVelocity ==
    (Returned /\ ValidEnums /\ ValidRange)
        => \A i \in 1..Len(call.bassline) :
              /\ call.bassline[i].duration \in {1, 2, 3, 4, 6, 8}
              /\ call.bassline[i].velocity = 100
              /\ call.bassline[i].velocity \in 0..127

\* C6 witness: a returned bassline holding a 1.5-beat and a 0.25-beat note.
C6_Witness ==
    /\ Returned /\ ValidEnums /\ ValidRange
    /\ \E i, j \in 1..Len(call.bassline) :
          call.bassline[i].duration = 6 /\ call.bassline[j].duration = 1

\* C7: at density 1.0 with num_bars >= 1, after the loop the number of notes
\* emitted equals the number of 1-valued steps of the num_bars templates
\* drawn, and the forced note is never added.
C7_FullDensityCount ==
    (ValidEnums /\ call.note_density = DensityRes /\ call.num_bars >= 1
     /\ call.pc \in {"loop", "done"} /\ call.bar >= call.num_bars)
        => /\ Len(call.templates) = call.num_bars
           /\ Len(call.bassline) = Onsets
           /\ ~call.forced

\* C7 witness: a two-bar call at density 1.0 returned after drawing two
\* different templates.
C7_Witness ==
    /\ Returned /\ ValidEnums
    /\ call.note_density = DensityRes
    /\ call.num_bars = 2
    /\ call.templates[1] # call.templates[2]

\* C8: generate_scale returns octaves * len(offsets) entries, the entry at
\* index o * len(offsets) + i being rootPitch + offsets[i] + 12 * o.
C8_ScaleLayout ==
    scale_call.pc = "done"
        => LET offsets == scales[scale_call.scale_type]
               n == Len(offsets)
           IN  /\ Len(scale_call.notes) = scale_call.octaves * n
               /\ \A o \in 0..(scale_call.octaves - 1) : \A i \in 1..n :
                     scale_call.notes[(o * n) + i] =
                         root_notes[scale_call.root_note] + offsets[i] + (12 * o)

\* C8 witness: a three-octave scale returned.
C8_Witness ==
    /\ scale_call.pc = "done"
    /\ scale_call.octaves = 3
    /\ Len(scale_call.notes) = 24

\* the scenario of C9: C major, Funk, one bar, density 1.0, the first Funk
\* template drawn for the bar
C9_Scenario ==
    /\ Returned
    /\ call.root_note = "C" /\ call.scale_type = "major" /\ call.genre = "Funk"
    /\ call.num_bars = 1
    /\ call.note_density = DensityRes
    /\ call.templates = << <<1, 0, 1, 0, 1, 0, 1, 0, 1, 0, 1, 1, 0, 1, 1, 0>> >>

\* C9 (as claimed): the scenario yields exactly 10 notes, at positions
\* {0,2,4,6,8,10,11,13,14}.
C9_TenNotes ==
    C9_Scenario
        => /\ Len(call.bassline) = 10
           /\ {call.bassline[i].position : i \in 1..Len(call.bassline)}
                  = {0, 2, 4, 6, 8, 10, 11, 13, 14}

\* C9 (amended): the scenario yields exactly 9 notes, at positions
\* 0,2,4,6,8,10,11,13,14 in that order.
C9_NineNotes ==
    C9_Scenario
        => /\ Len(call.bassline) = 9
           /\ [i \in 1..Len(call.bassline) |-> call.bassline[i].position]
                  = <<0, 2, 4, 6, 8, 10, 11, 13, 14>>

\* C9 witness: the scenario has run.
C9_Witness == C9_Scenario /\ Len(call.bassline) = 9

\* C10 (as claimed): for C major and a valid call the pitch pool is [36,38,40] and every
\* emitted pitch is one of 36, 38, 40.
C10_PoolOfThree ==
    (Returned /\ ValidEnums /\ ValidRange /\ call.root_note = "C" /\ call.scale_type = "major")
        => /\ LowerHalf(call.scale_notes) = <<36, 38, 40>>
           /\ \A i \in 1..Len(call.bassline) :
                 call.bassline[i].note \in {36, 38, 40}

\* C10 (amended): for C major and a valid call the pitch pool is the first 7 pitches
\* [36,38,40,41,43,45,47] and every emitted pitch is one of them.
C10_PoolOfSeven ==
    (Returned /\ ValidEnums /\ ValidRange /\ call.root_note = "C" /\ call.scale_type = "major")
        => /\ LowerHalf(call.scale_notes) = <<36, 38, 40, 41, 43, 45, 47>>
           /\ \A i \in 1..Len(call.bassline) :
                 call.bassline[i].note \in {36, 38, 40, 41, 43, 45, 47}

\* C10 witness: a C major bassline returned with a pitch above 40.
C10_Witness ==
    /\ Returned /\ ValidEnums /\ ValidRange
    /\ call.root_note = "C" /\ call.scale_type = "major"
    /\ \E i \in 1..Len(call.bassline) : call.bassline[i].note = 45

\* C11: every note emitted in bar b at template step s has position
\* b * 16 + s, and positions never decrease along the returned order, for
\* every num_bars, density and stream of draws.
C11_Positions ==
    Returned
        => /\ ~call.forced =>
                /\ Len(call.origins) = Len(call.bassline)
                /\ \A i \in 1..Len(call.bassline) :
                      LET b == call.origins[i].bar
                          st == call.origins[i].step
                      IN  /\ call.templates[b + 1][st + 1] = 1
                          /\ call.bassline[i].position = (b * 16) + st
           /\ \A i \in 1..(Len(call.bassline) - 1) :
                 call.bassline[i].position <= call.bassline[i + 1].position

\* C11 witness: a two-bar bassline returned with notes of both bars, the
\* last one at step 13 or later of the second bar.
C11_Witness ==
    /\ Returned /\ ValidEnums /\ ValidRange
    /\ call.num_bars = 2
    /\ Len(call.bassline) >= 2
    /\ call.bassline[1].position < 16
    /\ call.bassline[Len(call.bassline)].position >= 29

\* the other name of each root note that has two
Enharmonic ==
    "C#" :> "Db" @@ "Db" :> "C#" @@ "D#" :> "Eb" @@ "Eb" :> "D#" @@
    "F#" :> "Gb" @@ "Gb" :> "F#" @@ "G#" :> "Ab" @@ "Ab" :> "G#" @@
    "A#" :> "Bb" @@ "Bb" :> "A#"

\* C14: the two names of each enharmonic pair (C#,Db), (D#,Eb), (F#,Gb),
\* (G#,Ab), (A#,Bb) have the same pitch in the root-note table, and
\* generate_scale returns the same scale for both with every scale type.
C14_Enharmonic ==
    (scale_call.pc = "done" /\ scale_call.root_note \in DOMAIN Enharmonic)
        => LET other == Enharmonic[scale_call.root_note]
           IN  /\ other \in DOMAIN root_notes
               /\ root_notes[other] = root_notes[scale_call.root_note]
               /\ generate_scale(other, scale_call.scale_type,
                                 scale_call.octaves).raised = ""
               /\ generate_scale(other, scale_call.scale_type,
                                 scale_call.octaves).notes = scale_call.notes

\* C14 witness: the two-octave scale of Bb returned.
C14_Witness ==
    /\ scale_call.pc = "done"
    /\ scale_call.root_note = "Bb"
    /\ scale_call.octaves = 2
    /\ scale_call.notes # <<>>
    /\ scale_call.notes[1] = 46

\* C18 (as claimed): no two returned notes overlap in time: for consecutive
\* notes position_i/4 + duration_i <= position_{i+1}/4 (here in quarter
\* beats: position_i + duration_i <= position_{i+1}).
C18_Monophonic ==
    (Returned /\ ValidEnums /\ ValidRange)
        => \A i \in 1..(Len(call.bassline) - 1) :
              call.bassline[i].position + call.bassline[i].duration
                  <= call.bassline[i + 1].position

\* C18 (amended): no two returned notes start at the same time: for
\* consecutive notes position_i < position_{i+1}; a note may still sound
\* when the next one starts.
C18_DistinctOnsets ==
    (Returned /\ ValidEnums /\ ValidRange)
        => \A i \in 1..(Len(call.bassline) - 1) :
              call.bassline[i].position < call.bassline[i + 1].position

\* C18 witness: a returned bassline in which a note still sounds when the
\* next one starts.
C18_Witness ==
    /\ Returned /\ ValidEnums /\ ValidRange
    /\ \E i \in 1..(Len(call.bassline) - 1) :
          /\ call.bassline[i].position < call.bassline[i + 1].position
          /\ call.bassline[i].position + call.bassline[i].duration
                 > call.bassline[i + 1].position

\* every shipped root note and scale type: the two-octave scale strictly
\* increases and its lower half is the first octave, root + each offset
C19_AllScales ==
    \A r \in DOMAIN root_notes : \A t \in DOMAIN scales :
        LET g == generate_scale(r, t, 2)
            n == Len(scales[t])
        IN  /\ g.raised = ""
            /\ \A i \in 1..(Len(g.notes) - 1) : g.notes[i] < g.notes[i + 1]
            /\ Len(g.notes) \div 2 = n
            /\ \A i \in 1..n : g.notes[i] = root_notes[r] + scales[t][i]
            /\ \A i \in 1..n : /\ g.notes[i] >= root_notes[r]
                               /\ g.notes[i] <= root_notes[r] + 11
                               /\ g.notes[i] \in 36..58

\* C19: for every shipped root note and scale type the two-octave scale is
\* strictly increasing and its lower half is the first octave, so every
\* pitch returned by generate_bassline lies in [rootPitch, rootPitch + 11]
\* and in 36..58.
C19_PitchRange ==
    /\ C19_AllScales
    /\ (Returned /\ ValidEnums)
          => \A i \in 1..Len(call.bassline) :
                /\ call.bassline[i].note >= root_notes[call.root_note]
                /\ call.bassline[i].note <= root_notes[call.root_note] + 11
                /\ call.bassline[i].note \in 36..58

\* C19 witness: a bassline on B returned with the pitch 9 semitones above
\* the root.
C19_Witness ==
    /\ Returned /\ ValidEnums /\ ValidRange
    /\ call.root_note = "B"
    /\ \E i \in 1..Len(call.bassline) : call.bassline[i].note = 56

\* a parameter set as roll_parameters may return it
ValidRoll(p) ==
    /\ p.root_note \in DOMAIN root_notes
    /\ p.scale_type \in DOMAIN scales
    /\ p.genre \in DOMAIN rhythm_patterns
    /\ p.tempo \in 60..180
    /\ p.bars = 8
    /\ p.note_density >= 30
    /\ p.note_density <= RoundRes

\* C12: every parameter set returned by roll_parameters has a root note of
\* the root-note table, a scale type of the scale table, a genre of the
\* rhythm table, an integer tempo in 60..180, bars = 8 and a density in
\* [0.3, 1.0]; and a generate_bassline call made with a rolled set has these
\* parameters and never raises.
C12_RollIsValid ==
    /\ dice.pc # "none" =>
          \A i \in 1..Len(dice.rolled) : ValidRoll(dice.rolled[i])
    /\ (cli.mode = "2" /\ call.pc # "none") =>
          /\ ValidEnums
          /\ call.num_bars = 8
          /\ call.note_density * 10 >= 3 * call.density_res
          /\ call.note_density <= call.density_res
          /\ call.pc # "raised"
          /\ call.raised = ""

C12_Witness ==
    /\ cli.mode = "2"
    /\ call.pc = "done"
    /\ Len(call.bassline) > 1
    /\ cli.tempo > 60

\* C13: in interactive_roll, an answer other than y and n never ends the
\* call and is followed by a new roll (one roll per answer read, plus the
\* one on display while the call waits); the call returns only on y or n,
\* None on n and on y the parameter set of the most recent roll, which is
\* the one printed last.
C13_ConfirmLoop ==
    dice.pc # "none" =>
        /\ \A i \in 1..Len(dice.answers) :
              dice.answers[i] \in {"y", "n"} =>
                  (i = Len(dice.answers) /\ dice.pc = "returned")
        /\ Len(dice.rolled) =
              Len(dice.answers) + (IF dice.pc = "wait" THEN 1 ELSE 0)
        /\ dice.pc = "returned" =>
              /\ dice.answers # <<>>
              /\ dice.answers[Len(dice.answers)] \in {"y", "n"}
              /\ dice.answers[Len(dice.answers)] = "n" => dice.result = None
              /\ dice.answers[Len(dice.answers)] = "y" =>
                    /\ dice.result = <<dice.rolled[Len(dice.rolled)]>>
                    /\ dice.result = <<dice.shown[Len(dice.shown)]>>

C13_Witness ==
    /\ dice.pc = "returned"
    /\ Len(dice.answers) = 2
    /\ dice.answers[1] = "r"
    /\ dice.answers[2] = "y"
    /\ dice.rolled[1] # dice.rolled[2]

\* C20: in interactive_roll the number of roll_parameters calls equals the
\* number of prompts shown, every rolled set is printed, and after an
\* unrecognised answer the loop rolls again: it is about to call
\* roll_parameters or has drawn a further set since.
C20_RollPerPrompt ==
    dice.pc # "none" =>
        /\ dice.prompts = Len(dice.rolled)
        /\ dice.shown = dice.rolled
        /\ \A i \in 1..Len(dice.answers) :
              dice.answers[i] \notin {"y", "n", "r"} =>
                  \/ Len(dice.rolled) > i
                  \/ (i = Len(dice.answers) /\ dice.pc = "roll")

C20_Witness ==
    /\ dice.pc = "wait"
    /\ dice.answers = <<"yes">>
    /\ dice.prompts = 2
    /\ Len(dice.rolled) = 2
    /\ dice.rolled[1] # dice.rolled[2]

\* the parameters main() passes to generate_bassline are complete and valid
C16_Accepted ==
    call.pc # "none" =>
        /\ cli.pc \in {"generate", "exit", "crashed"}
        /\ cli.last = "ok"
        /\ call.root_note = cli.root_note
        /\ call.scale_type = cli.scale_type
        /\ call.genre = cli.genre
        /\ call.num_bars = cli.bars
        /\ call.note_density = cli.note_density.num
        /\ call.density_res = cli.note_density.den
        /\ ValidEnums
        /\ cli.mode = "1" =>
              /\ cli.tempo \in 40..240
              /\ cli.bars \in 1..16
              /\ cli.note_density.num >= 0
              /\ cli.note_density.num <= cli.note_density.den

\* C16 as stated: generate_bassline is called only with a complete, valid
\* parameter set, and after any invalid entry or rejected dice roll main()
\* is back at the mode prompt, nothing generated, no file written.
C16_BackToMode ==
    /\ C16_Accepted
    /\ cli.file.written => call.pc = "done"
    /\ cli.last \in {"invalid", "rejected"} =>
          /\ cli.pc = "mode"
          /\ call.pc = "none"
          /\ ~cli.file.written

\* C16, amended: generate_bassline is called only with a complete, valid
\* parameter set; no invalid entry and no rejected roll generates or writes
\* a file; a rejected roll and an invalid mode, root note, genre, tempo, bar
\* count or density lead back to the mode prompt, but an invalid scale
\* number is asked again at the scale prompt, the root note kept, and while
\* interactive_roll is looping (an unrecognised answer rolls again) main()
\* stays in dice mode.
C16_NoGenerationOnRefusal ==
    /\ C16_Accepted
    /\ cli.file.written => call.pc = "done"
    /\ cli.last \in {"invalid", "rejected"} =>
          /\ call.pc = "none"
          /\ ~cli.file.written
          /\ cli.pc \in {"mode", "scale"}
    /\ cli.last = "rejected" => cli.pc = "mode"
    /\ (cli.last = "invalid" /\ cli.pc = "scale") =>
          cli.root_note \in DOMAIN root_notes
    /\ dice.pc # "none" => (cli.pc = "dice" /\ call.pc = "none")

C16_Witness ==
    /\ cli.mode = "1"
    /\ cli.pc = "exit"
    /\ cli.file.written
    /\ cli.tempo = 240
    /\ cli.bars = 16
    /\ cli.note_density = [num |-> 5, den |-> 10]
    /\ Len(cli.file.added) > 1

\* the notes added by one exporter are the note events of the input, one
\* each and in order, the time a quarter of the position
AddedFrom(added, input) ==
    /\ Len(added) = Len(input)
    /\ \A i \in 1..Len(input) :
          /\ added[i].pitch = input[i].note
          /\ (added[i].time.whole * 4) + added[i].time.quarters
                = input[i].position
          /\ added[i].time.quarters \in 0..3
          /\ added[i].duration = input[i].duration
          /\ added[i].volume = input[i].velocity

SoloRun(f, g) ==
    Finish([call |-> [NewCall(f.root_note, f.scale_type, f.genre,
                              f.num_bars, f.note_density)
                         EXCEPT !.density_res = f.density_res],
            rng |-> g]).call.bassline

\* C15: when the preview generation and the background generation run at
\* once, each draws from a source of its own: the bassline a generation
\* returns is the one it returns when run alone from some state of the
\* source, however its bars interleave with the other generation's.
C15_OwnSource ==
    bg_call.pc # "none" =>
        /\ call.pc = "done" =>
              \E p \in 0..(TapeLen - 1) :
                  call.bassline = SoloRun(call, [tape |-> rng.tape, pos |-> p])
        /\ bg_call.pc = "done" =>
              \E p \in 0..(TapeLen - 1) :
                  bg_call.bassline =
                      SoloRun(bg_call, [tape |-> rng.tape, pos |-> p])

\* while the Generate and Random Parameters buttons are disabled, a
\* background thread is in flight or its _enable_controls is scheduled
C21_State ==
    gui.pc # "none" =>
        /\ Len(gui.threads) <= 1
        /\ gui.generate_btn = gui.dice_roll_btn
        /\ gui.threads # <<>> => gui.generate_btn = "disabled"
        /\ gui.generate_btn = "disabled" =>
              \/ gui.threads # <<>>
              \/ \E i \in 1..Len(gui.after) : gui.after[i] = "_enable_controls"

\* C21: a click on Generate disables the Generate and Random Parameters
\* buttons together, and whenever they are disabled both are eventually
\* enabled again, whether the thread's generation and export succeed or
\* raise, or the thread is never started; at most one background
\* generation thread is in flight at any time.
C21_Reenabled ==
    /\ []C21_State
    /\ (gui.pc # "none" /\ gui.generate_btn = "disabled")
          ~> (gui.generate_btn = "normal" /\ gui.dice_roll_btn = "normal")

C21_Witness ==
    /\ gui.pc = "mainloop"
    /\ gui.generate_btn = "disabled"
    /\ gui.dice_roll_btn = "disabled"
    /\ gui.threads = <<>>
    /\ gui.after = <<"showerror", "_enable_controls">>

\* between event handlers one of Preview and Stop is enabled, and Stop is
\* the enabled one only while a timer of _monitor_preview is pending
C22_State ==
    gui.pc # "none" =>
        /\ \/ gui.preview_btn = "normal" /\ gui.stop_preview_btn = "disabled"
           \/ gui.preview_btn = "disabled" /\ gui.stop_preview_btn = "normal"
        /\ gui.stop_preview_btn = "normal" => gui.monitors > 0

\* C22: between event handlers exactly one of the Preview and Stop buttons
\* is enabled; Preview is disabled and Stop enabled only while a started
\* preview is being monitored; and once playback is no longer running the
\* buttons return to the idle state, Preview enabled and Stop disabled.
C22_BackToIdle ==
    /\ []C22_State
    /\ (gui.pc # "none" /\ gui.stop_preview_btn = "normal" /\ ~gui.playing)
          ~> (gui.preview_btn = "normal" /\ gui.stop_preview_btn = "disabled")

C22_Witness ==
    /\ gui.pc = "mainloop"
    /\ gui.preview_btn = "disabled"
    /\ gui.stop_preview_btn = "normal"
    /\ ~gui.playing
    /\ gui.monitors = 2

====
